---- MODULE Spec2Model ----
(***************************************************************************)
(* access-log-tabulator.c: a line-by-line converter from the Apache        *)
(* Common/Combined Log Format to tab-separated values.                     *)
(*                                                                         *)
(* Bytes are one-character strings; a C string or buffer is a sequence of  *)
(* bytes indexed from 1 (C offset i is index i + 1).  The state is the     *)
(* process: its standard input and read position, the line buffer in_buf,  *)
(* the field cursor s, the bytes written to standard output, the error     *)
(* code written to standard error, the exit status and the position in     *)
(* main.                                                                   *)
(***************************************************************************)
EXTENDS Integers, Sequences, FiniteSets, TLC

VARIABLES
    input,       \* every byte the environment supplies on stdin
    argc,        \* argument count of the process
    in_buf,      \* main's line buffer, up to the last byte ever written
    out,         \* bytes written to stdout so far
    pos,         \* number of bytes of stdin consumed by fgets
    eof,         \* end-of-file indicator of stdin
    s,           \* the field cursor into in_buf (0 is NULL)
    time,        \* struct tm filled by the last parse_apache_datetime
    gmt_offset,  \* offset scanned by the last parse_apache_datetime
    err,         \* error code written to stderr ("none" while there is none)
    status,      \* exit status ("running" until the process ends)
    pc           \* position in main

vars == <<input, argc, in_buf, out, pos, eof, s, time, gmt_offset, err, status, pc>>

(***************************************************************************)
(* Bytes and strings                                                       *)
(***************************************************************************)
Chars(str) == [i \in 1..Len(str) |-> SubSeq(str, i, i)]

NUL == "\\0"
VT == "\\v"
NL == "\n"
TAB == "\t"
QUOTE == "\""

Rep(c, n) == [i \in 1..n |-> c]

BufSize == 4096
DtBufSize == 32

err_none == "none"
err_too_many_args == "ERR_TOO_MANY_ARGS"
err_line_is_too_long == "ERR_LINE_IS_TOO_LONG"
err_wrong_line_format == "ERR_WRONG_LINE_FORMAT"
err_input_read_error == "ERR_INPUT_READ_ERROR"
err_wrong_time_format == "ERR_WRONG_TIME_FORMAT"
err_time_buffer_size_exceeded == "ERR_TIME_BUFFER_SIZE_EXCEEDED"
err_failed_to_parse_month == "ERR_FAILED_TO_PARSE_MONTH"
err_failed_to_parse_apache_datetime == "ERR_FAILED_TO_PARSE_APACHE_DATETIME"

(* in_buf[4096] = {0}: the bytes beyond the last one written are zero.     *)
Byte(b, i) == IF i \in 1..Len(b) THEN b[i] ELSE NUL

isspace(c) == c \in {" ", "\t", "\n", VT, "\f", "\r"}

Digits == Chars("0123456789")
isdigit(c) == \E i \in 1..Len(Digits) : Digits[i] = c
DigitVal(c) == (CHOOSE i \in 1..Len(Digits) : Digits[i] = c) - 1

RECURSIVE Dec(_)
Dec(ds) ==
    IF ds = <<>> THEN 0
    ELSE 10 * Dec(SubSeq(ds, 1, Len(ds) - 1)) + DigitVal(ds[Len(ds)])

RECURSIVE ToDigits(_)
ToDigits(n) ==
    IF n < 10 THEN <<Digits[n + 1]>>
    ELSE ToDigits(n \div 10) \o <<Digits[(n % 10) + 1]>>

Abs(n) == IF n < 0 THEN -n ELSE n

(* printf("%0<w>d", v): sign, then zeros up to a total width of w.         *)
Padded(sg, ds, w) ==
    IF Len(sg) + Len(ds) >= w THEN sg \o ds
    ELSE sg \o Rep("0", w - Len(ds) - Len(sg)) \o ds

ZeroPad(v, w) == Padded(IF v < 0 THEN <<"-">> ELSE <<>>, ToDigits(Abs(v)), w)

(***************************************************************************)
(* Tokenizer helpers.  Each returns the advanced cursor s, the bytes it    *)
(* wrote with putchar and the error it raised (err_none when it returns).  *)
(***************************************************************************)
Token(b, p, e, m) == [s |-> e, out |-> SubSeq(b, p, e - 1), err |-> m]

print_non_spaces(b, p) ==
    Token(b, p,
          CHOOSE i \in p..BufSize :
              /\ isspace(Byte(b, i)) \/ Byte(b, i) = NUL
              /\ \A j \in p..(i - 1) : ~isspace(Byte(b, j)) /\ Byte(b, j) # NUL,
          err_none)

skip_spaces(b, p) ==
    CHOOSE i \in p..BufSize :
        /\ ~(isspace(Byte(b, i)) /\ Byte(b, i) # NUL)
        /\ \A j \in p..(i - 1) : isspace(Byte(b, j)) /\ Byte(b, j) # NUL

(* e is where the copying loop of print_enclosed stopped. *)
enclosed_end(b, p, end, e) ==
    IF Byte(b, e) # end
    THEN [s |-> e, out |-> SubSeq(b, p + 1, e - 1), err |-> err_wrong_line_format]
    ELSE [s |-> e + 1, out |-> SubSeq(b, p + 1, e - 1), err |-> err_none]

(* print_enclosed as it would be if it looked for the closing delimiter     *)
(* before it wrote anything.                                               *)
print_enclosed_buffered(b, p, op, end) ==
    IF Byte(b, p) # op \/ ~\E i \in (p + 1)..BufSize :
                              /\ Byte(b, i) = end
                              /\ \A j \in (p + 1)..(i - 1) : Byte(b, j) # NUL
    THEN [s |-> p, out |-> <<>>, err |-> err_wrong_line_format]
    ELSE enclosed_end(b, p, end,
             CHOOSE i \in (p + 1)..BufSize :
                 /\ Byte(b, i) = end
                 /\ \A j \in (p + 1)..(i - 1) : Byte(b, j) # end /\ Byte(b, j) # NUL)

print_enclosed(b, p, op, end) ==
    IF Byte(b, p) # op
    THEN [s |-> p, out |-> <<>>, err |-> err_wrong_line_format]
    ELSE enclosed_end(b, p, end,
             CHOOSE i \in (p + 1)..BufSize :
                 /\ Byte(b, i) = end \/ Byte(b, i) = NUL
                 /\ \A j \in (p + 1)..(i - 1) : Byte(b, j) # end /\ Byte(b, j) # NUL)

(***************************************************************************)
(* sscanf(s, "%2d/%3s/%4d:%2d:%2d:%2d %5d%n", ...)                         *)
(* A %<w>d skips white space, takes an optional sign and then decimal      *)
(* digits, at most w characters in all, and fails without a digit.  A      *)
(* %<w>s skips white space and takes up to w non-space characters.  A      *)
(* literal must match the next byte; the blank matches any run of white    *)
(* space, the empty one included.  Scanning stops at the first failure.    *)
(***************************************************************************)
(* q: the first byte behind the white space; d: where the digits start;   *)
(* n: how many digits are taken.                                           *)
int_value(b, q, d, n) ==
    [ok |-> n > 0,
     s |-> d + n,
     val |-> IF Byte(b, q) = "-"
             THEN -Dec(SubSeq(b, d, d + n - 1))
             ELSE Dec(SubSeq(b, d, d + n - 1)),
     eof |-> Byte(b, q) = NUL]

int_digits(b, q, d, maxd) ==
    int_value(b, q, d,
              CHOOSE k \in 0..maxd :
                  /\ \A j \in 0..(k - 1) : isdigit(Byte(b, d + j))
                  /\ k = maxd \/ ~isdigit(Byte(b, d + k)))

int_sign(b, q, w) ==
    IF Byte(b, q) \in {"+", "-"}
    THEN int_digits(b, q, q + 1, w - 1)
    ELSE int_digits(b, q, q, w)

(* scan_int as it would be if a field had to fill its width. *)
fixed_width(r, q, w) == [r EXCEPT !.ok = r.ok /\ r.s - q = w]
scan_int_fixed(b, p, w) ==
    fixed_width(int_sign(b, skip_spaces(b, p), w), skip_spaces(b, p), w)

scan_int(b, p, w) == int_sign(b, skip_spaces(b, p), w)

str_value(b, q, e) ==
    [ok |-> e > q, s |-> e, val |-> SubSeq(b, q, e - 1), eof |-> Byte(b, q) = NUL]

str_chars(b, q, w) ==
    str_value(b, q,
              CHOOSE i \in q..(q + w) :
                  /\ i = q + w \/ isspace(Byte(b, i)) \/ Byte(b, i) = NUL
                  /\ \A j \in q..(i - 1) : ~isspace(Byte(b, j)) /\ Byte(b, j) # NUL)

scan_str(b, p, w) == str_chars(b, skip_spaces(b, p), w)

Conv(kind, width) == [k |-> kind, w |-> width, c |-> ""]
Lit(ch) == [k |-> "lit", w |-> 0, c |-> ch]

fmt_apache ==
    << Conv("d", 2), Lit("/"), Conv("s", 3), Lit("/"), Conv("d", 4), Lit(":"),
       Conv("d", 2), Lit(":"), Conv("d", 2), Lit(":"), Conv("d", 2),
       Conv("ws", 0), Conv("d", 5), Conv("n", 0) >>

(* r.args: the values assigned so far; r.chars_read: what %n stored;       *)
(* r.ret: the value sscanf returns (EOF, -1, when the input ends before    *)
(* the first conversion).                                                  *)
RECURSIVE sscanf(_, _, _, _, _)

(* c: the outcome of the conversion directive i. *)
converted(b, p0, i, r, c) ==
    IF c.ok
    THEN sscanf(b, p0, c.s, i + 1,
                [r EXCEPT !.args = Append(@, c.val), !.ret = Len(r.args) + 1])
    ELSE [r EXCEPT !.ret = IF c.eof /\ r.args = <<>> THEN -1 ELSE @]

directive(b, p0, p, i, r, f) ==
    CASE f.k = "d" -> converted(b, p0, i, r, scan_int(b, p, f.w))
      [] f.k = "s" -> converted(b, p0, i, r, scan_str(b, p, f.w))
      [] f.k = "lit" ->
             IF Byte(b, p) = f.c THEN sscanf(b, p0, p + 1, i + 1, r) ELSE r
      [] f.k = "ws" -> sscanf(b, p0, skip_spaces(b, p), i + 1, r)
      [] f.k = "n" -> sscanf(b, p0, p, i + 1, [r EXCEPT !.chars_read = p - p0])

sscanf(b, p0, p, i, r) ==
    IF i > Len(fmt_apache) THEN r ELSE directive(b, p0, p, i, r, fmt_apache[i])

months ==
    << Chars("Jan"), Chars("Feb"), Chars("Mar"), Chars("Apr"), Chars("May"),
       Chars("Jun"), Chars("Jul"), Chars("Aug"), Chars("Sep"), Chars("Oct"),
       Chars("Nov"), Chars("Dec") >>
Upper == Chars("ABCDEFGHIJKLMNOPQRSTUVWXYZ")
Lower == Chars("abcdefghijklmnopqrstuvwxyz")
ToLower(c) ==
    IF \E i \in 1..Len(Upper) : Upper[i] = c
    THEN Lower[CHOOSE i \in 1..Len(Upper) : Upper[i] = c]
    ELSE c
LowerCase(q) == [i \in 1..Len(q) |-> ToLower(q[i])]

(* parse_month as it would be with strcasecmp. *)
parse_month_nocase(m) ==
    IF \E i \in 1..Len(months) : LowerCase(months[i]) = LowerCase(m)
    THEN (CHOOSE i \in 1..Len(months) : LowerCase(months[i]) = LowerCase(m)) - 1
    ELSE -1

(* The index of m in months; -1 stands for the call of error(). *)
parse_month(m) ==
    IF \E i \in 1..Len(months) : months[i] = m
    THEN (CHOOSE i \in 1..Len(months) : months[i] = m) - 1
    ELSE -1

tm_zero ==
    [tm_sec |-> 0, tm_min |-> 0, tm_hour |-> 0, tm_mday |-> 0, tm_mon |-> 0, tm_year |-> 0]

(* a: what sscanf assigned; mon: what parse_month returned. *)
datetime_fields(p, chars_read, a, mon) ==
    IF mon = -1
    THEN [err |-> err_failed_to_parse_month, s |-> p,
          time |-> tm_zero, gmt_offset |-> 0]
    ELSE [err |-> err_none, s |-> p + chars_read,
          time |-> [tm_sec |-> a[6], tm_min |-> a[5], tm_hour |-> a[4],
                    tm_mday |-> a[1], tm_mon |-> mon, tm_year |-> a[3] - 1900],
          gmt_offset |-> a[7]]

datetime_scanned(p, r) ==
    IF r.ret # 7
    THEN [err |-> err_failed_to_parse_apache_datetime, s |-> p,
          time |-> tm_zero, gmt_offset |-> 0]
    ELSE datetime_fields(p, r.chars_read, r.args, parse_month(r.args[2]))

scan_apache(b, p) == sscanf(b, p, p, 1, [args |-> <<>>, chars_read |-> 0, ret |-> 0])

parse_apache_datetime(b, p) == datetime_scanned(p, scan_apache(b, p))

(* strftime as it would be if tm_mon counted from 1. *)
strftime_mon(t) ==
    ZeroPad(t.tm_year + 1900, 1) \o <<"-">> \o ZeroPad(t.tm_mon, 2) \o <<"-">>
        \o ZeroPad(t.tm_mday, 2) \o <<"T">> \o ZeroPad(t.tm_hour, 2) \o <<":">>
        \o ZeroPad(t.tm_min, 2) \o <<":">> \o ZeroPad(t.tm_sec, 2)

(* strftime(dt_buf, 32, "%Y-%m-%dT%H:%M:%S", &time): the bytes written. *)
strftime(t) ==
    ZeroPad(t.tm_year + 1900, 1) \o <<"-">> \o ZeroPad(t.tm_mon + 1, 2) \o <<"-">>
        \o ZeroPad(t.tm_mday, 2) \o <<"T">> \o ZeroPad(t.tm_hour, 2) \o <<":">>
        \o ZeroPad(t.tm_min, 2) \o <<":">> \o ZeroPad(t.tm_sec, 2)

(* print_offset as it would be with "+%04d" alone. *)
print_offset_plus(g) == <<"+">> \o ZeroPad(g, 4)

(* printf("+%04d", gmt_offset) or printf("%05d", gmt_offset) *)
print_offset(g) ==
    IF g >= 0 THEN <<"+">> \o ZeroPad(g, 4) ELSE ZeroPad(g, 5)

(* parse_apache_datetime never returns NULL, so err_wrong_time_format is   *)
(* never raised.                                                           *)
timestamp_failed(d, e) ==
    [s |-> d.s, out |-> <<>>, err |-> e, time |-> d.time, gmt_offset |-> d.gmt_offset]

(* dt: what strftime wrote for d.time. *)
timestamp_printed(d, dt) ==
    IF Len(dt) + 1 > DtBufSize
    THEN timestamp_failed(d, err_time_buffer_size_exceeded)
    ELSE [s |-> d.s + 1, out |-> dt \o print_offset(d.gmt_offset),
          err |-> err_none, time |-> d.time, gmt_offset |-> d.gmt_offset]

(* d: what parse_apache_datetime returned. *)
timestamp_parsed(b, d) ==
    IF d.err # err_none THEN timestamp_failed(d, d.err)
    ELSE IF Byte(b, d.s) # "]" THEN timestamp_failed(d, err_wrong_line_format)
    ELSE timestamp_printed(d, strftime(d.time))

print_timestamp_as_iso(b, p) ==
    IF Byte(b, p) # "["
    THEN [s |-> p, out |-> <<>>, err |-> err_wrong_line_format,
          time |-> tm_zero, gmt_offset |-> 0]
    ELSE timestamp_parsed(b, parse_apache_datetime(b, p + 1))

(***************************************************************************)
(* main                                                                    *)
(***************************************************************************)
Header == Chars("host\tidentity\tuser\ttime\trequest\tstatus\tbytes\treferrer\tagent\n")

Min(a, b) == IF a < b THEN a ELSE b

(* fgets(in_buf, size, stdin) at read position p of stream: the number of  *)
(* bytes read, which is size - 1, or up to and including the first         *)
(* newline, or up to the end of the stream.                                *)
fgets_upto(stream, p, lim) ==
    IF \E k \in 1..lim : stream[p + k] = NL
    THEN CHOOSE k \in 1..lim :
             stream[p + k] = NL /\ \A j \in 1..(k - 1) : stream[p + j] # NL
    ELSE lim

(* fgets as it would be if it filled all size bytes with input. *)
fgets_count_full(stream, p, size) == fgets_upto(stream, p, Min(Len(stream) - p, size))

fgets_count(stream, p, size) == fgets_upto(stream, p, Min(Len(stream) - p, size - 1))

(* The buffer after fgets stored n bytes and the terminating zero: the     *)
(* bytes behind the zero keep what earlier reads left there.               *)
fgets_store(b, stream, p, n) ==
    SubSeq(stream, p + 1, p + n) \o <<NUL>> \o SubSeq(b, n + 2, Len(b))

memchr(b, c, n) == \E i \in 1..n : Byte(b, i) = c

(* error(m): the message goes to stderr, exit(EXIT_FAILURE) flushes what   *)
(* was written to stdout so far (w is what the failing call still wrote).  *)
error(m, w) ==
    /\ err' = m
    /\ status' = "EXIT_FAILURE"
    /\ pc' = "exit"
    /\ out' = out \o w

(* main as it would be without the header. *)
Start_no_header ==
    /\ pc = "start"
    /\ IF argc > 1
       THEN error(err_too_many_args, <<>>)
       ELSE /\ pc' = "read"
            /\ UNCHANGED <<out, err, status>>
    /\ UNCHANGED <<input, argc, in_buf, pos, eof, s, time, gmt_offset>>

(* argc check and header: lines 206-218 *)
Start ==
    /\ pc = "start"
    /\ IF argc > 1
       THEN error(err_too_many_args, <<>>)
       ELSE /\ out' = out \o Header
            /\ pc' = "read"
            /\ UNCHANGED <<err, status>>
    /\ UNCHANGED <<input, argc, in_buf, pos, eof, s, time, gmt_offset>>

(* Head of the loop, lines 220-229: fgets, the newline check, the blank    *)
(* line.                                                                   *)
(* nb: the buffer as fgets left it. *)
LineRead(nb) ==
    /\ in_buf' = nb
    /\ IF ~memchr(nb, NL, BufSize)
       THEN error(err_line_is_too_long, <<>>) /\ UNCHANGED s
       ELSE /\ s' = 1
            /\ UNCHANGED <<err, status>>
            /\ IF Byte(nb, 1) = NL
               THEN out' = out \o <<NL>> /\ pc' = "read"
               ELSE out' = out /\ pc' = "host"

(* n: the number of bytes fgets read. *)
LoopHead(n) ==
    IF n = 0
    THEN /\ eof' = TRUE
         /\ pc' = "eof"
         /\ UNCHANGED <<in_buf, pos, s, out, err, status>>
    ELSE /\ pos' = pos + n
         /\ eof' = (n < BufSize - 1 /\ input[pos + n] # NL)
         /\ LineRead(fgets_store(in_buf, input, pos, n))

ReadLine ==
    /\ pc = "read"
    /\ LoopHead(fgets_count(input, pos, BufSize))
    /\ UNCHANGED <<input, argc, time, gmt_offset>>

(* fgets returns NULL because the stream fails: the error indicator is     *)
(* set, the end-of-file indicator is not.                                  *)
ReadError ==
    /\ pc = "read"
    /\ pc' = "eof"
    /\ UNCHANGED <<input, argc, in_buf, out, pos, eof, s, time, gmt_offset, err, status>>

(* After the loop, lines 283-287 *)
AtEof ==
    /\ pc = "eof"
    /\ IF ~eof
       THEN error(err_input_read_error, <<>>)
       ELSE /\ status' = "EXIT_SUCCESS"
            /\ pc' = "exit"
            /\ UNCHANGED <<err, out>>
    /\ UNCHANGED <<input, argc, in_buf, pos, eof, s, time, gmt_offset>>

(* One field of the record: the token r that was printed, then             *)
(* s = skip_spaces(s); putchar('\t').                                      *)
Field(r, next) ==
    /\ IF r.err # err_none
       THEN error(r.err, r.out) /\ s' = r.s
       ELSE /\ s' = skip_spaces(in_buf, r.s)
            /\ out' = out \o r.out \o <<TAB>>
            /\ pc' = next
            /\ UNCHANGED <<err, status>>
    /\ UNCHANGED <<input, argc, in_buf, pos, eof>>

Host ==
    /\ pc = "host"
    /\ Field(print_non_spaces(in_buf, s), "identity")
    /\ UNCHANGED <<time, gmt_offset>>

Identity ==
    /\ pc = "identity"
    /\ Field(print_non_spaces(in_buf, s), "user")
    /\ UNCHANGED <<time, gmt_offset>>

User ==
    /\ pc = "user"
    /\ Field(print_non_spaces(in_buf, s), "time")
    /\ UNCHANGED <<time, gmt_offset>>

TimeField(r) ==
    /\ Field(r, "request")
    /\ time' = r.time
    /\ gmt_offset' = r.gmt_offset

Time ==
    /\ pc = "time"
    /\ TimeField(print_timestamp_as_iso(in_buf, s))

Request ==
    /\ pc = "request"
    /\ Field(print_enclosed(in_buf, s, QUOTE, QUOTE), "status")
    /\ UNCHANGED <<time, gmt_offset>>

Status ==
    /\ pc = "status"
    /\ Field(print_non_spaces(in_buf, s), "bytes")
    /\ UNCHANGED <<time, gmt_offset>>

Bytes ==
    /\ pc = "bytes"
    /\ Field(print_non_spaces(in_buf, s), "referrer")
    /\ UNCHANGED <<time, gmt_offset>>

Referrer ==
    /\ pc = "referrer"
    /\ Field(print_enclosed(in_buf, s, QUOTE, QUOTE), "agent")
    /\ UNCHANGED <<time, gmt_offset>>

(* The last field, lines 276-280: no skip_spaces, the newline must follow. *)
LastField(r) ==
    /\ s' = r.s
    /\ IF r.err # err_none
       THEN error(r.err, r.out)
       ELSE IF Byte(in_buf, r.s) # NL
       THEN error(err_wrong_line_format, r.out)
       ELSE /\ out' = out \o r.out \o <<NL>>
            /\ pc' = "read"
            /\ UNCHANGED <<err, status>>

Agent ==
    /\ pc = "agent"
    /\ LastField(print_enclosed(in_buf, s, QUOTE, QUOTE))
    /\ UNCHANGED <<input, argc, in_buf, pos, eof, time, gmt_offset>>

(* The loop body of main, lines 221-280, as a function of the buffer nb    *)
(* that fgets left: the bytes it writes and the error it raises.           *)
field_token(k, b, p) ==
    CASE k \in {1, 2, 3, 6, 7} -> print_non_spaces(b, p)
      [] k = 4 -> [x \in {"s", "out", "err"} |-> print_timestamp_as_iso(b, p)[x]]
      [] k \in {5, 8, 9} -> print_enclosed(b, p, QUOTE, QUOTE)

RECURSIVE line_fields(_, _, _, _)

(* r: the token of field k; w: what the line wrote before it. *)
field_done(b, k, w, r) ==
    IF r.err # err_none THEN [out |-> w \o r.out, err |-> r.err]
    ELSE IF k < 9 THEN line_fields(b, skip_spaces(b, r.s), k + 1, w \o r.out \o <<TAB>>)
    ELSE IF Byte(b, r.s) # NL THEN [out |-> w \o r.out, err |-> err_wrong_line_format]
    ELSE [out |-> w \o r.out \o <<NL>>, err |-> err_none]

line_fields(b, p, k, w) == field_done(b, k, w, field_token(k, b, p))

line_outcome(nb) ==
    IF ~memchr(nb, NL, BufSize) THEN [out |-> <<>>, err |-> err_line_is_too_long]
    ELSE IF Byte(nb, 1) = NL THEN [out |-> <<NL>>, err |-> err_none]
    ELSE line_fields(nb, 1, 1, <<>>)

Next ==
    \/ Start
    \/ ReadLine
    \/ ReadError
    \/ AtEof
    \/ Host
    \/ Identity
    \/ User
    \/ Time
    \/ Request
    \/ Status
    \/ Bytes
    \/ Referrer
    \/ Agent

(***************************************************************************)
(* The inputs of the model: streams of newline-terminated lines, possibly  *)
(* ending in a chunk that no newline terminates.                           *)
(***************************************************************************)
MaxLines == 2
MaxArgc == 2

CoreLines ==
    { Chars("h - u [10/Oct/2023:13:55:36 +0300] \"GET /\" 200 5 \"r\" \"a\""),
      <<>>,
      Chars("h - u [10/Oct/2000:13:55:36 -0700] \"GET /\tx\" 200 5 \"r\" \"a\""),
      Chars("h - u [10/Oct/2023:13:55:36 +0300] \"GET / HTTP/1.1"),
      Chars("h - u [10/Oct/2023:13:55:36 +0300] \"GET /\" 200 5"),
      Chars("h - u [10/jan/2023:13:55:36 +0300] \"GET /\" 200 5 \"r\" \"a\"") }

Unterminated ==
    { <<>>,
      Chars("ab"),
      Chars("h - u [10/Oct/2023:13:55:36 +0300] \"G\" 200 5 \"r\" \"a\"") }

RECURSIVE SeqsUpTo(_, _)
SeqsUpTo(S, n) ==
    IF n = 0 THEN {<<>>}
    ELSE LET T == SeqsUpTo(S, n - 1)
         IN T \cup {Append(q, x) : q \in T, x \in S}

RECURSIVE Stream(_)
Stream(lines) ==
    IF lines = <<>> THEN <<>>
    ELSE Stream(SubSeq(lines, 1, Len(lines) - 1)) \o lines[Len(lines)] \o <<NL>>

CoreInputs == {Stream(q) \o u : q \in SeqsUpTo(CoreLines, MaxLines), u \in Unterminated}

(* One line each, over the shapes of the time token. *)
TimeTokens ==
    { "[" \o d \o "/" \o m \o "/" \o y \o ":" \o c \o g \o o \o "]" :
        d \in {"10", "1"},
        m \in {"Oct", "Jan", "Dec", "jan", "Ja", "Octo"},
        y \in {"2023", "23", "5"},
        c \in {"13:55:36", "1:5:6", "13:55"},
        g \in {" ", ""},
        o \in {"+0300", "-0500", "+0000", "0300", "12345", "-0", "5", "+", "-12345",
                "+9999", "-9999", "9999", "10000", "99999", "-1", ""} }

TimeInputs ==
    { Chars("h - u " \o t \o " \"GET /\" 200 5 \"r\" \"a\"\n") : t \in TimeTokens }
    \cup
    { Chars("127.0.0.1 - frank [10/Oct/2000:13:55:36 -0700] \"GET /apache_pb.gif HTTP/1.0\" 200 2326 \"http://ref/\" \"Mozilla/5.0\"\n"),
      Chars("h - u [10/Oct/2023:13:55:36 +0300 \"GET /\" 200 5 \"r\" \"a\"\n"),
      Chars("h - u 10/Oct/2023:13:55:36 +0300] \"GET /\" 200 5 \"r\" \"a\"\n"),
      Chars("h - u [10/Oct/2023:13:55:36 +0300] \"GET /\" 200 5 \"r\" \"a\" \n") }

(* Lines around the size of the line buffer: n bytes before the newline. *)
LongPrefix == Chars("h - u [10/Oct/2023:13:55:36 +0300] \"GET /\" 200 5 \"r\" \"")
LongLine(n) == LongPrefix \o Rep("M", n - Len(LongPrefix) - 1) \o <<QUOTE>>

LongInputs ==
    { LongLine(n) \o e \o u :
        n \in (BufSize - 3)..BufSize,
        e \in {<<>>, <<NL>>},
        u \in {<<>>, Chars("ab"), Chars("\n")} }

Inputs == CoreInputs \cup TimeInputs \cup LongInputs

Init ==
    /\ input \in Inputs
    /\ argc \in 1..MaxArgc
    /\ in_buf = <<>>
    /\ out = <<>>
    /\ pos = 0
    /\ eof = FALSE
    /\ s = 0
    /\ time = tm_zero
    /\ gmt_offset = 0
    /\ err = err_none
    /\ status = "running"
    /\ pc = "start"

Spec == Init /\ [][Next]_vars

(***************************************************************************)
(* Properties                                                              *)
(***************************************************************************)
IsPrefix(a, b) == Len(a) <= Len(b) /\ SubSeq(b, 1, Len(a)) = a
IsSuffix(a, b) == Len(a) <= Len(b) /\ SubSeq(b, Len(b) - Len(a) + 1, Len(b)) = a
Count(q, c) == Cardinality({i \in 1..Len(q) : q[i] = c})
Occurs(a, b) == \E i \in 1..(Len(b) - Len(a) + 1) : SubSeq(b, i, i + Len(a) - 1) = a

(* The cursor stands on the bytes tok. *)
At(tok) == s + Len(tok) - 1 <= Len(in_buf) /\ SubSeq(in_buf, s, s + Len(tok) - 1) = tok

(* The bytes the step wrote to stdout. *)
Written == SubSeq(out', Len(out) + 1, Len(out'))

FixedHeader == Chars("host\tidentity\tuser\ttime\trequest\tstatus\tbytes\treferrer\tagent\n")

\* C6: started without arguments, the process writes the fixed header
\* before it reads any input, so the header is the first line of stdout
\* whatever stdin holds; on empty input stdout is the header alone and the
\* exit status is success.
C6_HeaderFirst ==
    argc <= 1 =>
        /\ pc = "start" => pos = 0 /\ out = <<>>
        /\ pc # "start" => IsPrefix(FixedHeader, out)
        /\ pos = 0 /\ pc = "read" => out = FixedHeader
        /\ input = <<>> /\ pc = "exit" /\ err # err_input_read_error
               => out = FixedHeader /\ status = "EXIT_SUCCESS"

C6_Witness ==
    /\ argc <= 1
    /\ input = <<>>
    /\ pc = "exit"
    /\ out = FixedHeader
    /\ status = "EXIT_SUCCESS"

C7_Token == Chars("[10/Oct/2023:13:55:36 +0300]")

\* C7 (as amended): the time token [10/Oct/2023:13:55:36 +0300] is rendered
\* as 2023-10-10T13:55:36+0300.
C7_Rendered ==
    [][pc = "time" /\ At(C7_Token)
          => Written = Chars("2023-10-10T13:55:36+0300\t")]_vars

\* C7 (as claimed): the time token [10/Oct/2023:13:55:36 +0300] is rendered
\* as 2023-10-13T13:55:36+0300.
C7_Original ==
    [][pc = "time" /\ At(C7_Token)
          => Written = Chars("2023-10-13T13:55:36+0300\t")]_vars

C7_Witness ==
    /\ pc = "request"
    /\ Occurs(C7_Token, in_buf)
    /\ IsSuffix(Chars("2023-10-10T13:55:36+0300\t"), out)

NLs(q) == {i \in 1..Len(q) : q[i] = NL}
NthNL(q, k) == CHOOSE i \in NLs(q) : Cardinality({j \in NLs(q) : j <= i}) = k
LastNL(q) == IF NLs(q) = {} THEN 0 ELSE CHOOSE i \in NLs(q) : \A j \in NLs(q) : j <= i

(* The k-th newline-terminated line of q, without its newline. *)
Piece(q, k) == SubSeq(q, IF k = 1 THEN 1 ELSE NthNL(q, k - 1) + 1, NthNL(q, k) - 1)

Records(o) == SubSeq(o, Len(FixedHeader) + 1, Len(o))

\* C1: when every input line is accepted, stdout holds after the header one
\* record per input line, in input order, and the record of every non-blank
\* line has exactly 8 tabs before its newline (9 fields), whatever bytes the
\* tokens and the quoted fields contain.
C1_NineFields ==
    pc = "exit" /\ status = "EXIT_SUCCESS" =>
        /\ IsPrefix(FixedHeader, out)
        /\ input = <<>> \/ input[Len(input)] = NL
        /\ Records(out) = <<>> \/ out[Len(out)] = NL
        /\ Cardinality(NLs(Records(out))) = Cardinality(NLs(input))
        /\ \A k \in 1..Cardinality(NLs(input)) :
               IF Piece(input, k) = <<>>
               THEN Piece(Records(out), k) = <<>>
               ELSE /\ Count(Piece(Records(out), k), TAB) = 8
                    /\ IsPrefix(print_non_spaces(Piece(input, k), 1).out,
                                Piece(Records(out), k))

(* The end of the string that starts at p: its terminating zero. *)
StrEnd(b, p) ==
    CHOOSE i \in p..BufSize : Byte(b, i) = NUL /\ \A j \in p..(i - 1) : Byte(b, j) # NUL

(* The cursor is on a request field that opens with a quote and has no     *)
(* closing quote before the end of the line.                               *)
C2_Unclosed ==
    /\ pc = "request"
    /\ Byte(in_buf, s) = QUOTE
    /\ \A i \in (s + 1)..(StrEnd(in_buf, s) - 1) : in_buf[i] # QUOTE

\* C2 (as amended): a request field with an opening quote and no closing
\* quote before the end of the line ends the run with the wrong-line-format
\* error and failure status; stdout then holds what it held when the field
\* was reached (the header, the records of the preceding lines and the
\* host, identity, user and time fields of this line, each followed by a
\* tab) followed by the bytes behind the opening quote up to the end of the
\* line, its newline included; no step follows the exit, so nothing of a
\* later line is written.
C2_PartialRecord ==
    [][/\ C2_Unclosed =>
              /\ err' = err_wrong_line_format
              /\ status' = "EXIT_FAILURE"
              /\ pc' = "exit"
              /\ Count(SubSeq(out, LastNL(out) + 1, Len(out)), TAB) = 4
              /\ Written = SubSeq(in_buf, s + 1, StrEnd(in_buf, s) - 1)
       /\ pc # "exit"]_vars

\* C2 (as claimed): a request field with an opening quote and no closing
\* quote ends the run with the wrong-line-format error and failure status,
\* and stdout at termination is the header plus the records of the
\* preceding lines: nothing is written for the malformed line.
C2_Original ==
    [][C2_Unclosed =>
           /\ err' = err_wrong_line_format
           /\ status' = "EXIT_FAILURE"
           /\ out' = SubSeq(out, 1, LastNL(out))]_vars

C2_Line == Chars("h - u [10/Oct/2023:13:55:36 +0300] \"GET / HTTP/1.1\n")

C2_Witness ==
    /\ pc = "exit"
    /\ err = err_wrong_line_format
    /\ IsPrefix(C2_Line \o <<NUL>>, in_buf)
    /\ IsSuffix(Chars("\tGET / HTTP/1.1\n"), out)
    /\ Len(C2_Line) < pos
    /\ pos < Len(input)

(* The next line of stdin ends with a newline; the bytes before it. *)
HasLine == \E k \in 1..(Len(input) - pos) : input[pos + k] = NL
ContentLen ==
    (CHOOSE k \in 1..(Len(input) - pos) :
         input[pos + k] = NL /\ \A j \in 1..(k - 1) : input[pos + j] # NL) - 1

\* C3 (as amended): with the line buffer of 4096 bytes, every input line of
\* at most 4094 bytes followed by a newline (4095 bytes in all) passes the
\* length check and is handed to the tokenizer (a blank line is echoed);
\* every line with more than 4094 bytes before its newline raises the
\* line-too-long error.
C3_LengthLimit ==
    [][pc = "read" /\ pos' # pos /\ HasLine =>
           IF ContentLen <= 4094
           THEN /\ err' = err_none
                /\ pos' = pos + ContentLen + 1
                /\ IF ContentLen = 0
                   THEN pc' = "read" /\ Written = <<NL>>
                   ELSE pc' = "host" /\ s' = 1 /\ Written = <<>>
           ELSE err' = err_line_is_too_long /\ pc' = "exit"]_vars

\* C3 (as claimed): every input line of at most 4095 bytes followed by a
\* newline passes the length check; the line-too-long error is raised only
\* for lines with more than 4095 bytes before the newline.
C3_Original ==
    [][pc = "read" /\ pos' # pos /\ HasLine /\ ContentLen <= 4095
           => err' # err_line_is_too_long /\ pc' # "exit"]_vars

C3_Witness ==
    /\ pc = "host"
    /\ pos = 4095
    /\ in_buf[4095] = NL
    /\ \A i \in 1..4094 : in_buf[i] # NL

\* C4: every chunk fgets returns that holds no newline is rejected with the
\* line-too-long error before anything of it is tokenized or written,
\* wherever it stands in the input.
C4_Rejected ==
    [][pc = "read" /\ pos' # pos /\ (\A i \in (pos + 1)..pos' : input[i] # NL)
           => err' = err_line_is_too_long /\ pc' = "exit" /\ out' = out]_vars

(* The chunk the next fgets reads, stored over the buffer b. *)
NextRead(b) == fgets_store(b, input, pos, fgets_count(input, pos, BufSize))

\* C5: no state is carried across lines: the outcome of the next line (the
\* bytes it writes, the error it raises) after the lines read so far is its
\* outcome as the first line of a run, where the buffer is still zero.
C5_NoCarry ==
    pc = "read" /\ pos < Len(input) => line_outcome(NextRead(in_buf)) = line_outcome(NextRead(<<>>))

(* What the time step wrote, without the tab that ends the field. *)
Rendered == SubSeq(out', Len(out) + 1, Len(out') - 1)

Signs(q) == {i \in 1..Len(q) : q[i] \in {"+", "-"}}
LastSign(q) == IF Signs(q) = {} THEN 0 ELSE CHOOSE i \in Signs(q) : \A j \in Signs(q) : j <= i
AllDigits(q) == q # <<>> /\ \A i \in 1..Len(q) : isdigit(q[i])

(* r ends with the offset g: its sign, then its magnitude in n digits. *)
OffsetForm(r, g, n) ==
    /\ LastSign(r) > 0
    /\ r[LastSign(r)] = (IF g >= 0 THEN "+" ELSE "-")
    /\ AllDigits(SubSeq(r, LastSign(r) + 1, Len(r)))
    /\ Len(r) - LastSign(r) = n
    /\ Dec(SubSeq(r, LastSign(r) + 1, Len(r))) = Abs(g)

\* C8 (as amended): for every time token the parser accepts, the rendered
\* offset is one sign character followed by the zero-padded magnitude of the
\* scanned offset: '+' when it is non-negative, '-' when it is negative;
\* exactly 4 digits when the magnitude is at most 9999 (-0500 renders -0500,
\* +0000 renders +0000, 0300 renders +0300) and 5 digits for an unsigned
\* offset of five digits (12345 renders +12345).
C8_OffsetSign ==
    [][pc = "time" /\ pc' = "request" =>
           /\ OffsetForm(Rendered, gmt_offset', IF Abs(gmt_offset') <= 9999 THEN 4 ELSE 5)
           /\ At(Chars("[10/Oct/2023:13:55:36 -0500]"))
                  => gmt_offset' = -500 /\ IsSuffix(Chars("-0500"), Rendered)
           /\ At(Chars("[10/Oct/2023:13:55:36 +0000]"))
                  => gmt_offset' = 0 /\ IsSuffix(Chars("+0000"), Rendered)
           /\ At(Chars("[10/Oct/2023:13:55:36 0300]"))
                  => gmt_offset' = 300 /\ IsSuffix(Chars("+0300"), Rendered)
           /\ At(Chars("[10/Oct/2023:13:55:36 12345]"))
                  => gmt_offset' = 12345 /\ IsSuffix(Chars("+12345"), Rendered)]_vars

\* C8 (as claimed): for every time token the parser accepts, the rendered
\* offset is one sign character followed by exactly 4 digits, the
\* zero-padded magnitude of the scanned offset, whether the offset was
\* written with or without a sign.
C8_Original ==
    [][pc = "time" /\ pc' = "request" => OffsetForm(Rendered, gmt_offset', 4)]_vars

C8_Witness ==
    /\ pc = "request"
    /\ gmt_offset = -500
    /\ Occurs(Chars(" -0500]"), in_buf)
    /\ IsSuffix(Chars("-0500\t"), out)

MonthNames ==
    << Chars("Jan"), Chars("Feb"), Chars("Mar"), Chars("Apr"), Chars("May"),
       Chars("Jun"), Chars("Jul"), Chars("Aug"), Chars("Sep"), Chars("Oct"),
       Chars("Nov"), Chars("Dec") >>

(* mon: the month abbreviation that was scanned. *)
MonthOutcome(mon) ==
    IF \E i \in 1..12 : MonthNames[i] = mon
    THEN /\ err' \notin {err_failed_to_parse_month, err_failed_to_parse_apache_datetime}
         /\ \A i \in 1..12 : MonthNames[i] = mon => time'.tm_mon = i - 1
    ELSE /\ err' = err_failed_to_parse_month
         /\ status' = "EXIT_FAILURE"
         /\ pc' = "exit"
         /\ Written = <<>>

\* C9: month matching is an exact, case-sensitive lookup in Jan..Dec: when
\* the seven sub-fields of a time token scan, the token is accepted with
\* the 0-based position of its month abbreviation as month index (Jan is 0,
\* Dec is 11) if the abbreviation is in the list, and is rejected with the
\* failed-to-parse-month error, not the datetime or the line-format error,
\* if it is not (jan).
C9_MonthLookup ==
    [][pc = "time" /\ Byte(in_buf, s) = "[" =>
           /\ scan_apache(in_buf, s + 1).ret = 7
                  => MonthOutcome(scan_apache(in_buf, s + 1).args[2])
           /\ At(Chars("[10/Jan/2023:13:55:36 +0300]"))
                  => err' = err_none /\ time'.tm_mon = 0
           /\ At(Chars("[10/Dec/2023:13:55:36 +0300]"))
                  => err' = err_none /\ time'.tm_mon = 11
           /\ At(Chars("[10/jan/2023:13:55:36 +0300]"))
                  => err' = err_failed_to_parse_month]_vars

C9_Witness ==
    /\ pc = "exit"
    /\ err = err_failed_to_parse_month
    /\ status = "EXIT_FAILURE"
    /\ Occurs(Chars("[10/jan/2023:13:55:36 +0300]"), in_buf)

(* Sub-fields of a time token as written, paired with their rendering:   *)
(* day, hour, minute and second in two digits, the month by its number,   *)
(* the offset as a sign and four digits.                                   *)
WrittenDays == {<<"10", "10">>, <<"1", "01">>}
WrittenMonths == {<<"Oct", "10">>, <<"Jan", "01">>, <<"Dec", "12">>}
WrittenYears == {"2023", "23", "5"}
WrittenClocks == {<<"13:55:36", "13:55:36">>, <<"1:5:6", "01:05:06">>}
WrittenOffsets ==
    {<<"+0300", "+0300">>, <<"-0500", "-0500">>, <<"+0000", "+0000">>, <<"0300", "+0300">>,
     <<"9999", "+9999">>, <<"5", "+0005">>, <<"-1", "-0001">>, <<"-0", "+0000">>}

TimeToken(d, m, y, c, o) ==
    Chars("[" \o d \o "/" \o m \o "/" \o y \o ":" \o c \o " " \o o \o "]")

(* The step accepts the token and writes the rendering iso as the time field. *)
TokenAccepted(iso) ==
    /\ err' = err_none
    /\ status' = "running"
    /\ pc' = "request"
    /\ Written = Chars(iso \o "\t")

(* The step aborts with the datetime error and writes nothing. *)
TokenRejected ==
    /\ err' = err_failed_to_parse_apache_datetime
    /\ status' = "EXIT_FAILURE"
    /\ pc' = "exit"
    /\ Written = <<>>

ShortDay == Byte(in_buf, s) = "[" /\ isdigit(Byte(in_buf, s + 1)) /\ Byte(in_buf, s + 2) = "/"

====
